---------------------------- MODULE Spec2Model ----------------------------
(***************************************************************************)
(* A model of flypanel-layout-tools: the ring geometry engine              *)
(* (RingLayout.make_values and its helpers), the relative-placement        *)
(* transform (get_new_comp_data), the placement runs of RingLayout and     *)
(* LedArray, and the cli command.                                          *)
(*                                                                         *)
(* Numbers.  The program computes in floating point; the model computes on *)
(* an integer grid on which the operations it needs are exact:             *)
(*   - an angle is a whole number of steps of 15 degrees (Full steps make  *)
(*     a turn), so 2*pi/N is exact for the panel counts N dividing Full/2; *)
(*   - cos, sin and cot are tables of thousandths over those steps;        *)
(*   - a length in mm is a whole number of tenths of a millimetre.         *)
(* Products with a table entry are divided by 1000 and rounded; for angles *)
(* that are multiples of a quarter turn the entries are 0 and +-1000 and   *)
(* nothing is rounded.                                                     *)
(***************************************************************************)
EXTENDS Integers, Sequences, FiniteSets, TLC

VARIABLES
    pc,       \* position of the program
    args,     \* the command line of cli: [geom, file]
    cfg,      \* self.config, the loaded configuration
    values,   \* self.values, the result of make_values (NoValues before)
    err,      \* the exception that ended the run ("none" while running)
    board,    \* the pcb document in memory: reference -> [x, y, angle]
    run,      \* the locals of place_components
    written,  \* the references whose position was set, in order
    saved     \* the boards written by pcb.Save, in order

vars == <<pc, args, cfg, values, err, board, run, written, saved>>

-----------------------------------------------------------------------------
(* Bounds of the model *)

\* panel.number ranges over the counts up to MaxPanels that divide half a turn
MaxPanels == 6
\* pins.number ranges over 0..MaxPins
MaxPins == 4
\* a header has at most MaxRel relative components configured
MaxRel == 2
\* an LED array has at most MaxGrid rows and MaxGrid columns
MaxGrid == 3

-----------------------------------------------------------------------------
(* Angles and trigonometry on the 15-degree grid *)

\* steps of 15 degrees in 2*pi
Full == 24

Abs(x) == IF x < 0 THEN -x ELSE x

\* a / b for b # 0 of either sign, rounded towards zero
IDiv(a, b) ==
    IF (a >= 0) = (b > 0) THEN Abs(a) \div Abs(b) ELSE -(Abs(a) \div Abs(b))

\* 1000 * cos of s steps, 0 <= s <= 6
CosQ(s) ==
    CASE s = 0 -> 1000 [] s = 1 -> 966 [] s = 2 -> 866 [] s = 3 -> 707
      [] s = 4 -> 500  [] s = 5 -> 259 [] OTHER -> 0

\* np.cos, in thousandths
Cos1000(a) ==
    LET s == a % Full
    IN  IF s <= 6 THEN CosQ(s)
        ELSE IF s <= 12 THEN -CosQ(12 - s)
        ELSE IF s <= 18 THEN -CosQ(s - 12)
        ELSE CosQ(Full - s)

\* np.sin, in thousandths
Sin1000(a) == Cos1000(a - 6)

\* 1000 / np.tan(h) for a half subtended angle h of 1..12 steps.  In floating
\* point tan(pi/2) is 1.6e16, whose reciprocal rounds to 0 on the grid, and
\* tan(pi) is -1.2e-16, whose reciprocal is a finite number of the order of
\* -8e15: the table saturates it at -1000000.
CotQ(h) ==
    CASE h = 1 -> 3732 [] h = 2 -> 1732 [] h = 3 -> 1000 [] h = 4 -> 577
      [] h = 5 -> 268  [] h = 6 -> 0    [] h = 7 -> -268 [] h = 8 -> -577
      [] h = 9 -> -1000 [] h = 10 -> -1732 [] h = 11 -> -3732
      [] OTHER -> -1000000

\* 1000 / np.tan(h), tan being odd
Cot1000(h) == IF h > 0 THEN CotQ(h) ELSE -CotQ(-h)

\* x / 1000 rounded to the nearest grid point
Round1000(x) == (x + 500) \div 1000

\* np.pi/2 in steps
HalfPi == 6

-----------------------------------------------------------------------------
(* convert.py and the unit helpers of RingLayout / LedArray *)

\* inch_to_mm: 1e3 * constants.inch * val = 25.4 * val, in tenths of a mm
inch_to_mm(val) == 254 * val

\* to_mm: a configured length, as tenths of a mm
to_mm(c, v) == IF c.units.length = "mm" THEN 10 * v ELSE inch_to_mm(v)

\* np.deg2rad on the grid: 15 degrees are one step
deg2rad(v) == IDiv(v, 15)

\* np.rad2deg on the grid
rad2deg(a) == 15 * a

\* to_rad: a configured angle, as steps
to_rad(c, v) == IF c.units.angle = "rad" THEN v ELSE deg2rad(v)

-----------------------------------------------------------------------------
(* ring_layout.py: the utility functions of the geometry engine *)

\* x / 2000 rounded to the nearest grid point: 0.5 * (a product with a table entry)
Round2000(x) == (x + 1000) \div 2000

\* range(n) as a sequence: <<0, ..., n-1>>, empty for n <= 0
Range(n) == [k \in 1..n |-> k - 1]

Min(a, b) == IF a <= b THEN a ELSE b

\* zip(a, b) stops at the shorter argument
ZipLen(a, b) == Min(Len(a), Len(b))

\* one face of get_face_lines: [(x0, x1), (y0, y1)] for the centre (x, y), with
\* ang the panel angle plus pi/2
FaceLine(x, y, ang, width) ==
    << << x - Round2000(width * Cos1000(ang)), x + Round2000(width * Cos1000(ang)) >>,
       << y - Round2000(width * Sin1000(ang)), y + Round2000(width * Sin1000(ang)) >> >>

\* get_face_lines(xvals, yvals, angles, width)
get_face_lines(xvals, yvals, angles, width) ==
    [i \in 1..Min(ZipLen(xvals, yvals), Len(angles)) |->
        FaceLine(xvals[i], yvals[i], angles[i] + HalfPi, width)]

\* get_side_lines(lines_front, lines_back): the left lines join the first end
\* points, the right lines the second end points
get_side_lines(lines_front, lines_back) ==
    [left  |-> [i \in 1..ZipLen(lines_front, lines_back) |->
                  << << lines_front[i][1][1], lines_back[i][1][1] >>,
                     << lines_front[i][2][1], lines_back[i][2][1] >> >>],
     right |-> [i \in 1..ZipLen(lines_front, lines_back) |->
                  << << lines_front[i][1][2], lines_back[i][1][2] >>,
                     << lines_front[i][2][2], lines_back[i][2][2] >> >>]]

\* PinSkipped with the 0-based index tested against the 1-based omitted set
PinSkippedZeroBased(i, omitted) == i \in omitted

\* the test of the inner loop of get_pin_pos: pin i (0-based) is skipped when
\* its 1-based index is in omitted
PinSkipped(i, omitted) == (i + 1) \in omitted

\* the inner loop of get_pin_pos from pin i on: the (pin_pos_x, pin_pos_y) of
\* one header with pin centre (cx, cy) at angle ang
RECURSIVE HeaderPins(_, _, _, _, _, _, _)
HeaderPins(i, num, pitch, omitted, cx, cy, ang) ==
    IF i >= num THEN << <<>>, <<>> >>
    ELSE LET rest  == HeaderPins(i + 1, num, pitch, omitted, cx, cy, ang)
             width == (num - 1) * pitch
             x == cx + Round2000((2 * i * pitch - width) * Cos1000(ang + HalfPi))
             y == cy + Round2000((2 * i * pitch - width) * Sin1000(ang + HalfPi))
         IN  IF PinSkipped(i, omitted) THEN rest
             ELSE << <<x>> \o rest[1], <<y>> \o rest[2] >>

\* the pin centre of get_pin_pos for a header at angle ang
PinCenter(radius, ang) ==
    << Round1000(radius * Cos1000(ang)), Round1000(radius * Sin1000(ang)) >>

\* get_pin_pos(angles, num, radius, pitch, omitted)
get_pin_pos(angles, num, radius, pitch, omitted) ==
    [pin_positions |->
        [h \in 1..Len(angles) |->
            HeaderPins(0, num, pitch, omitted,
                       PinCenter(radius, angles[h])[1],
                       PinCenter(radius, angles[h])[2], angles[h])],
     pin_centers |-> [h \in 1..Len(angles) |-> PinCenter(radius, angles[h])]]

\* MaskSelect keeping as many entries as the mask has True places, from the front
MaskSelectPrefix(arr, mask) ==
    SubSeq(arr, 1, Cardinality({k \in 1..Len(mask) : mask[k]}))

\* arr[mask] for a boolean mask of arr's length: the entries at the True places
RECURSIVE MaskSelect(_, _)
MaskSelect(arr, mask) ==
    IF arr = <<>> THEN <<>>
    ELSE IF Head(mask) THEN <<Head(arr)>> \o MaskSelect(Tail(arr), Tail(mask))
    ELSE MaskSelect(Tail(arr), Tail(mask))

\* Negate without the negation
NegateSkipped(angles) == angles

\* angles = -angles
Negate(angles) == [i \in 1..Len(angles) |-> -angles[i]]

-----------------------------------------------------------------------------
(* RingLayout.make_values *)

\* values before make_values has returned
NoValues == [none |-> TRUE]

\* the configuration fields make_values reads; a missing one raises KeyError
GeomFields ==
    {"panel.number", "panel.width", "panel.depth", "panel.offset_angle",
     "panel.omitted", "pins.number", "pins.pitch", "pins.depth", "pins.omitted",
     "units.length", "units.angle"}

\* the body of make_values, for a configuration with all fields and a
\* panel.number other than 0
make_values(c) ==
    LET num_panel       == c.panel.number
        panel_width     == to_mm(c, c.panel.width)
        panel_depth     == to_mm(c, c.panel.depth)
        offset_angle    == to_rad(c, c.panel.offset_angle)
        omitted_panels  == c.panel.omitted
        installed_mask  == [k \in 1..num_panel |-> ~((k - 1) \in omitted_panels)]
        num_installed   == Cardinality({k \in 1..num_panel : installed_mask[k]})
        num_pins        == c.pins.number
        pin_pitch       == to_mm(c, c.pins.pitch)
        pin_depth       == to_mm(c, c.pins.depth)
        omitted_pins    == c.pins.omitted
        subtended_angle == IDiv(Full, num_panel)
        radius_front    == Round2000(panel_width * Cot1000(IDiv(subtended_angle, 2)))
        radius_back     == radius_front + panel_depth
        radius_pins     == radius_front + pin_depth
        all_angles      == [k \in 1..num_panel |->
                               Range(num_panel)[k] * subtended_angle + offset_angle]
        angles          == Negate(MaskSelect(all_angles, installed_mask))
        front_x == [i \in 1..Len(angles) |-> Round1000(radius_front * Cos1000(angles[i]))]
        front_y == [i \in 1..Len(angles) |-> Round1000(radius_front * Sin1000(angles[i]))]
        back_x  == [i \in 1..Len(angles) |-> Round1000(radius_back * Cos1000(angles[i]))]
        back_y  == [i \in 1..Len(angles) |-> Round1000(radius_back * Sin1000(angles[i]))]
        lines_front == get_face_lines(front_x, front_y, angles, panel_width)
        lines_back  == get_face_lines(back_x, back_y, angles, panel_width)
        sides       == get_side_lines(lines_front, lines_back)
        pins        == get_pin_pos(angles, num_pins, radius_pins, pin_pitch, omitted_pins)
    IN  [panel |-> [number |-> num_panel, width |-> panel_width,
                    depth |-> panel_depth, subtended |-> subtended_angle,
                    omitted |-> omitted_panels, offset_angle |-> offset_angle],
         pins  |-> [number |-> num_pins, pitch |-> pin_pitch, omitted |-> omitted_pins],
         installed     |-> installed_mask,
         num_installed |-> num_installed,
         radius_front  |-> radius_front,
         radius_back   |-> radius_back,
         radius_pins   |-> radius_pins,
         angles        |-> angles,
         front_x |-> front_x, front_y |-> front_y,
         back_x  |-> back_x,  back_y  |-> back_y,
         lines_front |-> lines_front, lines_back  |-> lines_back,
         lines_left  |-> sides.left,  lines_right |-> sides.right,
         pin_positions |-> pins.pin_positions,
         pin_centers   |-> pins.pin_centers]

\* whether panel.number passes the division of line 55: 2.0*np.pi/num_panel
\* raises ZeroDivisionError for 0 and for nothing else
DivisionDefined(num_panel) == num_panel # 0

-----------------------------------------------------------------------------
(* RingLayout.__init__ *)

\* the board, the locals and the log of a program that has not loaded a pcb
NoBoard == << >>
NoRun == [none |-> TRUE]

\* __init__, a required field missing: the read of it in make_values raises
ConstructKeyError ==
    /\ pc = "construct"
    /\ cfg.absent \in GeomFields
    /\ pc' = "failed"
    /\ err' = "KeyError"
    /\ UNCHANGED <<args, cfg, values, board, run, written, saved>>

\* __init__, panel.number = 0: the division of line 55 raises
ConstructZeroDivision ==
    /\ pc = "construct"
    /\ cfg.absent \notin GeomFields
    /\ ~DivisionDefined(cfg.panel.number)
    /\ pc' = "failed"
    /\ err' = "ZeroDivisionError"
    /\ UNCHANGED <<args, cfg, values, board, run, written, saved>>

\* __init__: self.values = self.make_values(); print_values()
ConstructOk ==
    /\ pc = "construct"
    /\ cfg.absent \notin GeomFields
    /\ DivisionDefined(cfg.panel.number)
    /\ values' = make_values(cfg)
    /\ pc' = "constructed"
    /\ UNCHANGED <<args, cfg, err, board, run, written, saved>>

Construct == ConstructKeyError \/ ConstructZeroDivision \/ ConstructOk

-----------------------------------------------------------------------------
(* The geometry engine on its own: RingLayout(config) for the             *)
(* configurations of GeomConfigs                                          *)

\* the panel counts of the geometry runs: the negative ones, 0, and the positive
\* ones for which 2*pi/N and pi/N are whole steps
GeomPanelCounts ==
    {n \in -2..MaxPanels : n = 0 \/ (Full \div 2) % Abs(n) = 0}

\* the sets of at most two members of S
UpToTwo(S) == {T \in SUBSET S : Cardinality(T) <= 2}

\* a pcb section, not read by the constructor
DefaultPcb ==
    [size_x |-> 10, size_y |-> 10, center_x |-> 0, center_y |-> 0,
     line_width |-> 1, cutout_diam |-> 2,
     panel |-> [ref_prefix |-> "J", ref_start |-> 1],
     relative |-> [has_model |-> TRUE, model |-> 1, lists |-> << >>]]

\* the configurations with panel.number = n: every set of omitted indices
\* within [0, n), two offsets, both units, every pin count and some field
\* possibly missing
GeomConfigsOf(n) ==
    {[panel |-> [number |-> n, width |-> 2, depth |-> 1,
                 offset_angle |-> off, omitted |-> om],
      pins  |-> [number |-> pn, pitch |-> 1, depth |-> 1, omitted |-> pom],
      units |-> [length |-> ul, angle |-> ua],
      pcb   |-> DefaultPcb,
      absent |-> ab] :
        om \in SUBSET (0..(n - 1)),
        off \in {0, 30}, ua \in {"rad", "deg"}, ul \in {"mm", "inch"},
        pn \in 0..MaxPins, pom \in UpToTwo(0..(MaxPins + 1)),
        ab \in {"none", "panel.number", "pins.omitted"}}

InitGeom ==
    /\ pc = "construct"
    /\ args = [prog |-> "script", geom |-> "ring", file |-> "none"]
    /\ \E n \in GeomPanelCounts : cfg \in GeomConfigsOf(n)
    /\ values = NoValues
    /\ err = "none"
    /\ board = NoBoard
    /\ run = NoRun
    /\ written = << >>
    /\ saved = << >>

NextGeom == Construct

SpecGeom == InitGeom /\ [][NextGeom]_vars

-----------------------------------------------------------------------------
(* The pcb document (pcbnew) and convert.py *)

\* f'{ref_prefix}{num}': a reference designator
Ref(prefix, num) == <<prefix, num>>

\* pcbnew.FromMM: tenths of a mm to internal units (nm)
FromMM(t) == 100000 * t

\* pcbnew.ToMM: internal units (nm) to tenths of a mm
ToMM(iu) == IDiv(iu, 100000)

\* EDA_ANGLE.AsRadians: the stored degrees, as steps
AsRadians(deg) == deg2rad(deg)

\* pos_to_pcbnew_vec(p)
pos_to_pcbnew_vec(p) == << FromMM(p[1]), FromMM(p[2]) >>

\* pcb.FindFootprintByReference(ref) is not None
Found(b, ref) == ref \in DOMAIN b.fp

\* SetOnNoneRaises with a missing footprint skipped silently
SetOnNoneIgnored(b, ref) == FALSE

\* footprint.SetPosition on the None that FindFootprintByReference returns
\* for a reference that is not on the board raises AttributeError
SetOnNoneRaises(b, ref) == ~Found(b, ref)

\* footprint.SetPosition(vec); footprint.SetOrientationDegrees(deg)
SetFootprint(b, ref, vec, deg) ==
    [b EXCEPT !.fp = [r \in DOMAIN b.fp |->
                        IF r = ref THEN [x |-> vec[1], y |-> vec[2], deg |-> deg]
                        ELSE b.fp[r]]]

\* get_comp_data_by_ref(pcb, ref), for a reference on the board
get_comp_data_by_ref(b, ref) ==
    [x |-> ToMM(b.fp[ref].x), y |-> ToMM(b.fp[ref].y),
     angle |-> AsRadians(b.fp[ref].deg)]

-----------------------------------------------------------------------------
(* Python dicts keep insertion order: [keys |-> sequence, val |-> function] *)

EmptyDict == [keys |-> << >>, val |-> << >>]

\* d[k] = v
DictSet(d, k, v) ==
    IF k \in DOMAIN d.val
    THEN [d EXCEPT !.val = [x \in DOMAIN d.val |-> IF x = k THEN v ELSE d.val[x]]]
    ELSE [keys |-> Append(d.keys, k),
          val  |-> [x \in DOMAIN d.val \cup {k} |-> IF x = k THEN v ELSE d.val[x]]]

\* k in d
DictHas(d, k) == k \in DOMAIN d.val

-----------------------------------------------------------------------------
(* RingLayout.get_pcb_params and the utility functions of the placement *)

\* get_pcb_params: a deep copy of config['pcb'] with the lengths in mm
get_pcb_params(c) ==
    [c.pcb EXCEPT !.size_x = to_mm(c, c.pcb.size_x),
                  !.size_y = to_mm(c, c.pcb.size_y),
                  !.center_x = to_mm(c, c.pcb.center_x),
                  !.center_y = to_mm(c, c.pcb.center_y),
                  !.line_width = to_mm(c, c.pcb.line_width),
                  !.cutout_diam = to_mm(c, c.pcb.cutout_diam)]

\* get_pcb_params without the deep copy of line 252: the six assignments of
\* lines 253-258 go to config['pcb'] itself
ConfigSharedWithPcbParams(c) == [c EXCEPT !.pcb = get_pcb_params(c)]

\* self.config after get_pcb_params: line 252 takes a deep copy, so the
\* assignments of lines 253-258 reach the copy and the configuration keeps
\* every value it had
ConfigAfterPcbParams(c) == c

\* list(range(ref_start, ref_start + num))
PanelNumList(ref_start, num) == [i \in 1..num |-> ref_start + i - 1]

\* [f'{ref_prefix}{i}' for i in panel_num_list]
PanelRefList(ref_prefix, panel_num_list) ==
    [i \in 1..Len(panel_num_list) |-> Ref(ref_prefix, panel_num_list[i])]

\* RelComps looking the list up under the position of the header among the
\* installed panels (the panel's index in a ring without omissions) instead
\* of under the header's reference number
RelCompsByPosition(pcb_params, panel_num) ==
    IF (panel_num - pcb_params.panel.ref_start) \in DOMAIN pcb_params.relative.lists
    THEN pcb_params.relative.lists[panel_num - pcb_params.panel.ref_start]
    ELSE << >>

\* pcb_params['relative'][f'{panel_num}'], [] on KeyError
RelComps(pcb_params, panel_num) ==
    IF panel_num \in DOMAIN pcb_params.relative.lists
    THEN pcb_params.relative.lists[panel_num]
    ELSE << >>

\* get_panel_ref_to_rel(pcb_params, panel_num_list, panel_ref_list)
RECURSIVE PanelRefToRelFrom(_, _, _, _, _)
PanelRefToRelFrom(d, i, pcb_params, panel_num_list, panel_ref_list) ==
    IF i > Min(Len(panel_num_list), Len(panel_ref_list)) THEN d
    ELSE PanelRefToRelFrom(
            DictSet(d, panel_ref_list[i], RelComps(pcb_params, panel_num_list[i])),
            i + 1, pcb_params, panel_num_list, panel_ref_list)

get_panel_ref_to_rel(pcb_params, panel_num_list, panel_ref_list) ==
    PanelRefToRelFrom(EmptyDict, 1, pcb_params, panel_num_list, panel_ref_list)

\* the members of a sequence
SeqSet(q) == {q[i] : i \in 1..Len(q)}

\* the references get_cur_comp_data looks up: every header, and every relative
\* component of every header
RefsRead(panel_ref_list, panel_ref_to_rel) ==
    SeqSet(panel_ref_list)
      \cup UNION {SeqSet(panel_ref_to_rel.val[r]) : r \in SeqSet(panel_ref_list)}

\* get_cur_comp_data(pcb, panel_ref_list, panel_ref_to_rel), every reference found
get_cur_comp_data(b, panel_ref_list, panel_ref_to_rel) ==
    [r \in RefsRead(panel_ref_list, panel_ref_to_rel) |-> get_comp_data_by_ref(b, r)]

-----------------------------------------------------------------------------
(* get_new_comp_data *)

\* np.dot(rot_matrix, p) for the rotation matrix of angle
Rot(angle, p) ==
    << Round1000(Cos1000(angle) * p[1] - Sin1000(angle) * p[2]),
       Round1000(Sin1000(angle) * p[1] + Cos1000(angle) * p[2]) >>

\* HeaderTarget without the translation by the pcb centre
HeaderTargetUntranslated(arena_values, ind, pcb_cx, pcb_cy) ==
    [x |-> arena_values.pin_centers[ind][1],
     y |-> arena_values.pin_centers[ind][2],
     angle |-> -(arena_values.angles[ind] + HalfPi)]

\* lines 538-541: the desired position and angle of the header of panel ind
HeaderTarget(arena_values, ind, pcb_cx, pcb_cy) ==
    [x |-> arena_values.pin_centers[ind][1] + pcb_cx,
     y |-> arena_values.pin_centers[ind][2] + pcb_cy,
     angle |-> -(arena_values.angles[ind] + HalfPi)]

\* lines 536-541: the loop over the panel headers
RECURSIVE HeaderEntries(_, _, _, _, _)
HeaderEntries(new, ind, arena_values, pcb_params, panel_ref_list) ==
    IF ind > Len(panel_ref_list) THEN new
    ELSE HeaderEntries(
            DictSet(new, panel_ref_list[ind],
                    HeaderTarget(arena_values, ind,
                                 pcb_params.center_x, pcb_params.center_y)),
            ind + 1, arena_values, pcb_params, panel_ref_list)

\* NormalisedData with the offset rotated the other way
NormalisedDataMirrored(data, model_data, angle) ==
    LET p == Rot(-angle, << data.x - model_data.x, data.y - model_data.y >>)
    IN  [x |-> p[1], y |-> p[2], angle |-> data.angle - angle]

\* lines 555-559: a relative component of the model in the frame of the model
\* header
NormalisedData(data, model_data, angle) ==
    LET p == Rot(angle, << data.x - model_data.x, data.y - model_data.y >>)
    IN  [x |-> p[1], y |-> p[2], angle |-> data.angle - angle]

\* lines 554-559: the loop over model_rel_data; its entries are the dicts of
\* cur_comp_data themselves, which it overwrites
RECURSIVE Normalise(_, _, _, _)
Normalise(cur, model_ref, items, angle) ==
    IF items = << >> THEN cur
    ELSE Normalise(
            [r \in DOMAIN cur |->
                IF r = Head(items)
                THEN NormalisedData(cur[r], cur[model_ref], angle)
                ELSE cur[r]],
            model_ref, Tail(items), angle)

\* lines 549-562: cur_comp_data after the normalisation
NormalisedCur(cur, model_ref, items) ==
    LET done == Normalise(cur, model_ref, items, cur[model_ref].angle)
    IN  [r \in DOMAIN done |->
            IF r = model_ref THEN [x |-> 0, y |-> 0, angle |-> 0] ELSE done[r]]

\* lines 574-582: the placement of one relative component around the header
\* at (cx, cy), angle being minus the header's new angle
RelPlacement(data, cx, cy, angle) ==
    LET p == Rot(angle, << data.x, data.y >>)
    IN  [x |-> cx + p[1], y |-> cy + p[2], angle |-> -(angle - data.angle)]

\* lines 573-582: the inner loop, over the relative components of one panel
RECURSIVE PlacePanel(_, _, _, _, _, _, _, _)
PlacePanel(new, cur, model_items, rel_list, ind, cx, cy, angle) ==
    IF ind > Len(rel_list) THEN new
    ELSE PlacePanel(
            DictSet(new, rel_list[ind],
                    RelPlacement(cur[model_items[ind]], cx, cy, angle)),
            cur, model_items, rel_list, ind + 1, cx, cy, angle)

\* lines 565-582: the loop over panel_ref_to_rel.items(), from its k-th key
RECURSIVE PlaceAll(_, _, _, _, _)
PlaceAll(new, cur, model_items, panel_ref_to_rel, k) ==
    IF k > Len(panel_ref_to_rel.keys) THEN new
    ELSE LET panel_ref == panel_ref_to_rel.keys[k]
         IN  PlaceAll(
                PlacePanel(new, cur, model_items, panel_ref_to_rel.val[panel_ref], 1,
                           new.val[panel_ref].x, new.val[panel_ref].y,
                           -new.val[panel_ref].angle),
                cur, model_items, panel_ref_to_rel, k + 1)

\* f'{ref_prefix}{model_num}'
ModelRef(pcb_params) ==
    Ref(pcb_params.panel.ref_prefix, pcb_params.relative.model)

\* line 544-545: cur_comp_data[model_ref] and panel_ref_to_rel[model_ref] exist
ModelKnown(pcb_params, panel_ref_to_rel, cur) ==
    /\ ModelRef(pcb_params) \in DOMAIN cur
    /\ DictHas(panel_ref_to_rel, ModelRef(pcb_params))

\* line 574: model_rel_data[ind] exists for every relative component of every
\* panel
ModelListCovers(pcb_params, panel_ref_to_rel) ==
    \A r \in DOMAIN panel_ref_to_rel.val :
        Len(panel_ref_to_rel.val[r]) <= Len(panel_ref_to_rel.val[ModelRef(pcb_params)])

\* get_new_comp_data(...), when it raises nothing: the returned new_comp_data
get_new_comp_data(arena_values, pcb_params, panel_ref_list, panel_ref_to_rel, cur) ==
    LET model_ref   == ModelRef(pcb_params)
        model_items == panel_ref_to_rel.val[model_ref]
        headers     == HeaderEntries(EmptyDict, 1, arena_values, pcb_params,
                                     panel_ref_list)
    IN  PlaceAll(headers, NormalisedCur(cur, model_ref, model_items),
                 model_items, panel_ref_to_rel, 1)

-----------------------------------------------------------------------------
(* app.py: the cli command *)

\* geom.lower(), over the geometry arguments of the model
Lower(g) ==
    CASE g \in {"ring", "Ring", "RING"} -> "ring"
      [] g \in {"grid", "Grid"} -> "grid"
      [] OTHER -> g

\* cli, geom.lower() == 'ring': layout = RingLayout(conf, plot)
CliRing ==
    /\ pc = "cli"
    /\ Lower(args.geom) = "ring"
    /\ pc' = "construct"
    /\ UNCHANGED <<args, cfg, values, err, board, run, written, saved>>

\* cli, the else branch: the f-string of line 32 reads the name geometry,
\* which is not defined (the parameter is geom): NameError
CliUnsupported ==
    /\ pc = "cli"
    /\ Lower(args.geom) # "ring"
    /\ pc' = "failed"
    /\ err' = "NameError"
    /\ UNCHANGED <<args, cfg, values, board, run, written, saved>>

\* cli, file is None: nothing is placed
CliNoFile ==
    /\ pc = "constructed"
    /\ args.prog = "cli"
    /\ args.file = "none"
    /\ pc' = "done"
    /\ UNCHANGED <<args, cfg, values, err, board, run, written, saved>>

-----------------------------------------------------------------------------
(* RingLayout.place_components *)

\* lines 184-185: print_pcb_params reads pcb_params["relative"]["model"];
\* without a model designation it raises KeyError
PlaceModelMissing ==
    /\ pc = "constructed"
    /\ args.prog = "cli"
    /\ args.file # "none"
    /\ ~cfg.pcb.relative.has_model
    /\ pc' = "failed"
    /\ err' = "KeyError"
    /\ UNCHANGED <<args, cfg, values, board, run, written, saved>>

\* lines 184-200: the pcb parameters, the header references, the board and
\* the relative components of every header
PlacePrepare ==
    /\ pc = "constructed"
    /\ args.prog = "cli"
    /\ args.file # "none"
    /\ cfg.pcb.relative.has_model
    /\ cfg' = ConfigAfterPcbParams(cfg)
    /\ LET pcb_params     == get_pcb_params(cfg)
           panel_num_list == PanelNumList(pcb_params.panel.ref_start,
                                          values.num_installed)
           panel_ref_list == PanelRefList(pcb_params.panel.ref_prefix, panel_num_list)
       IN  run' = [pcb_params       |-> pcb_params,
                   panel_num_list   |-> panel_num_list,
                   panel_ref_list   |-> panel_ref_list,
                   panel_ref_to_rel |-> get_panel_ref_to_rel(pcb_params,
                                            panel_num_list, panel_ref_list),
                   cur_comp_data    |-> << >>,
                   new_comp_data    |-> EmptyDict,
                   next             |-> 1]
    /\ pc' = "loaded"
    /\ UNCHANGED <<args, values, err, board, written, saved>>

\* line 204, get_cur_comp_data: a reference that is not on the board makes
\* FindFootprintByReference return None, and footprint.GetPosition() raises
PlaceReadFail ==
    /\ pc = "loaded"
    /\ \E r \in RefsRead(run.panel_ref_list, run.panel_ref_to_rel) : ~Found(board, r)
    /\ pc' = "failed"
    /\ err' = "AttributeError"
    /\ UNCHANGED <<args, cfg, values, board, run, written, saved>>

\* line 204, get_cur_comp_data, every reference found
PlaceRead ==
    /\ pc = "loaded"
    /\ \A r \in RefsRead(run.panel_ref_list, run.panel_ref_to_rel) : Found(board, r)
    /\ run' = [run EXCEPT !.cur_comp_data =
                  get_cur_comp_data(board, run.panel_ref_list, run.panel_ref_to_rel)]
    /\ pc' = "read"
    /\ UNCHANGED <<args, cfg, values, err, board, written, saved>>

\* line 205, get_new_comp_data: the model reference is no header of the run
PlaceComputeKeyError ==
    /\ pc = "read"
    /\ ~ModelKnown(run.pcb_params, run.panel_ref_to_rel, run.cur_comp_data)
    /\ pc' = "failed"
    /\ err' = "KeyError"
    /\ UNCHANGED <<args, cfg, values, board, run, written, saved>>

\* line 205, get_new_comp_data: a panel has more relative components than
\* the model panel, and model_rel_data[ind] raises
PlaceComputeIndexError ==
    /\ pc = "read"
    /\ ModelKnown(run.pcb_params, run.panel_ref_to_rel, run.cur_comp_data)
    /\ ~ModelListCovers(run.pcb_params, run.panel_ref_to_rel)
    /\ pc' = "failed"
    /\ err' = "IndexError"
    /\ UNCHANGED <<args, cfg, values, board, run, written, saved>>

\* line 205, get_new_comp_data returning; it has overwritten the model's
\* entries of cur_comp_data
PlaceCompute ==
    /\ pc = "read"
    /\ ModelKnown(run.pcb_params, run.panel_ref_to_rel, run.cur_comp_data)
    /\ ModelListCovers(run.pcb_params, run.panel_ref_to_rel)
    /\ run' = [run EXCEPT
                 !.new_comp_data =
                     get_new_comp_data(values, run.pcb_params, run.panel_ref_list,
                                       run.panel_ref_to_rel, run.cur_comp_data),
                 !.cur_comp_data =
                     NormalisedCur(run.cur_comp_data, ModelRef(run.pcb_params),
                                   run.panel_ref_to_rel.val[ModelRef(run.pcb_params)])]
    /\ pc' = "computed"
    /\ UNCHANGED <<args, cfg, values, err, board, written, saved>>

\* lines 208-213: one turn of the loop over new_comp_data.items()
PlaceWriteOne ==
    /\ pc = "computed"
    /\ run.next <= Len(run.new_comp_data.keys)
    /\ LET ref  == run.new_comp_data.keys[run.next]
           data == run.new_comp_data.val[ref]
           vec  == pos_to_pcbnew_vec(<<data.x, data.y>>)
       IN  IF ~SetOnNoneRaises(board, ref)
           THEN /\ board' = SetFootprint(board, ref, vec, rad2deg(data.angle))
                /\ written' = Append(written, [ref |-> ref, x |-> vec[1], y |-> vec[2],
                                               deg |-> rad2deg(data.angle)])
                /\ run' = [run EXCEPT !.next = run.next + 1]
                /\ UNCHANGED <<pc, err>>
           ELSE /\ pc' = "failed"
                /\ err' = "AttributeError"
                /\ UNCHANGED <<board, written, run>>
    /\ UNCHANGED <<args, cfg, values, saved>>

\* lines 216-245: the outside boundary and the inner cutout
Outline(pcb_params) ==
    LET dx == pcb_params.size_x \div 2
        dy == pcb_params.size_y \div 2
        cx == pcb_params.center_x
        cy == pcb_params.center_y
        lw == FromMM(pcb_params.line_width)
        seg(p, q) == [kind |-> "segment", start |-> pos_to_pcbnew_vec(p),
                      end |-> pos_to_pcbnew_vec(q), width |-> lw]
    IN  << seg(<<cx - dx, cy - dy>>, <<cx - dx, cy + dy>>),
           seg(<<cx - dx, cy + dy>>, <<cx + dx, cy + dy>>),
           seg(<<cx + dx, cy + dy>>, <<cx + dx, cy - dy>>),
           seg(<<cx + dx, cy - dy>>, <<cx - dx, cy - dy>>),
           [kind |-> "circle", start |-> pos_to_pcbnew_vec(<<cx, cy>>),
            end |-> << FromMM(pcb_params.cutout_diam \div 2 + cx), FromMM(cy) >>,
            width |-> lw] >>

\* lines 215-247: the loop is over; the edge cuts are added and the board saved
PlaceSave ==
    /\ pc = "computed"
    /\ run.next > Len(run.new_comp_data.keys)
    /\ board' = [board EXCEPT !.shapes = board.shapes \o Outline(run.pcb_params)]
    /\ saved' = Append(saved, [name |-> <<"modified_", args.file>>, board |-> board'])
    /\ pc' = "done"
    /\ UNCHANGED <<args, cfg, values, err, run, written>>

Place ==
    \/ PlaceModelMissing \/ PlacePrepare \/ PlaceReadFail \/ PlaceRead
    \/ PlaceComputeKeyError \/ PlaceComputeIndexError \/ PlaceCompute
    \/ PlaceWriteOne \/ PlaceSave

-----------------------------------------------------------------------------
(* LedArray.place_components *)

\* LedPos with the row index used for the column
LedPosRowOnly(i, j, cx_pcb, cy_pcb, dx_led, dy_led, w_led, h_led) ==
    << cx_pcb + j * dx_led - w_led \div 2, cy_pcb + j * dy_led - h_led \div 2 >>

\* lines 40-42: the position of the LED of column i and row j
LedPos(i, j, cx_pcb, cy_pcb, dx_led, dy_led, w_led, h_led) ==
    << cx_pcb + i * dx_led - w_led \div 2, cy_pcb + j * dy_led - h_led \div 2 >>

\* lines 29-30: w_pcb/ncols or h_pcb/nrows raises ZeroDivisionError
LedZeroDivision ==
    /\ pc = "led"
    /\ (cfg.pcb.led.ncols = 0 \/ cfg.pcb.led.nrows = 0)
    /\ pc' = "failed"
    /\ err' = "ZeroDivisionError"
    /\ UNCHANGED <<args, cfg, values, board, run, written, saved>>

\* lines 17-36: the parameters of the grid, the board loaded, led_num = ref_start
LedPrepare ==
    /\ pc = "led"
    /\ cfg.pcb.led.ncols # 0
    /\ cfg.pcb.led.nrows # 0
    /\ LET w_pcb  == to_mm(cfg, cfg.pcb.size_x)
           h_pcb  == to_mm(cfg, cfg.pcb.size_y)
           nrows  == cfg.pcb.led.nrows
           ncols  == cfg.pcb.led.ncols
           dx_led == IDiv(w_pcb, ncols)
           dy_led == IDiv(h_pcb, nrows)
       IN  run' = [cx_pcb |-> to_mm(cfg, cfg.pcb.center_x),
                   cy_pcb |-> to_mm(cfg, cfg.pcb.center_y),
                   nrows |-> nrows, ncols |-> ncols,
                   ref_prefix |-> cfg.pcb.led.ref_prefix,
                   angle_led |-> to_rad(cfg, cfg.pcb.led.angle),
                   nleds |-> nrows * ncols,
                   dx_led |-> dx_led, dy_led |-> dy_led,
                   w_led |-> (ncols - 1) * dx_led,
                   h_led |-> (nrows - 1) * dy_led,
                   led_num |-> cfg.pcb.led.ref_start,
                   i |-> 0, j |-> 0]
    /\ pc' = "led_loop"
    /\ UNCHANGED <<args, cfg, values, err, board, written, saved>>

\* lines 39-48: one turn of the inner loop
LedPlaceOne ==
    /\ pc = "led_loop"
    /\ run.i < run.ncols
    /\ LET ref == Ref(run.ref_prefix, run.led_num)
           pos == LedPos(run.i, run.j, run.cx_pcb, run.cy_pcb, run.dx_led,
                         run.dy_led, run.w_led, run.h_led)
           vec == pos_to_pcbnew_vec(pos)
       IN  IF ~SetOnNoneRaises(board, ref)
           THEN /\ board' = SetFootprint(board, ref, vec, rad2deg(run.angle_led))
                /\ written' = Append(written, [ref |-> ref, x |-> vec[1], y |-> vec[2],
                                               deg |-> rad2deg(run.angle_led)])
                /\ run' = [run EXCEPT
                             !.led_num = run.led_num + 1,
                             !.j = IF run.j + 1 < run.nrows THEN run.j + 1 ELSE 0,
                             !.i = IF run.j + 1 < run.nrows THEN run.i ELSE run.i + 1]
                /\ UNCHANGED <<pc, err>>
           ELSE /\ pc' = "failed"
                /\ err' = "AttributeError"
                /\ UNCHANGED <<board, written, run>>
    /\ UNCHANGED <<args, cfg, values, saved>>

\* line 50: pcb.Save('test.kicad_pcb')
LedSave ==
    /\ pc = "led_loop"
    /\ run.i >= run.ncols
    /\ saved' = Append(saved, [name |-> <<"test.kicad_pcb">>, board |-> board])
    /\ pc' = "done"
    /\ UNCHANGED <<args, cfg, values, err, board, run, written>>

Led == LedZeroDivision \/ LedPrepare \/ LedPlaceOne \/ LedSave

-----------------------------------------------------------------------------
(* The whole program: the cli command with a ring arena, and the LED array  *)
(* example script                                                           *)

\* the relative components configured under header number key, len of them
RelList(key, len) == [j \in 1..len |-> Ref("C", 10 * key + j)]

\* the header numbers that may have relative components configured
RelKeys == {1, 2}

\* the references of the pcb documents of the model: headers, relative
\* components and LEDs
HeaderRefs == {Ref("J", n) : n \in 1..(MaxPanels + 2)}
RelRefs == {Ref("C", 10 * k + j) : k \in RelKeys, j \in 1..MaxRel}
LedRefs == {Ref("D", n) : n \in 1..(MaxGrid * MaxGrid + 2)}

\* the as-found footprint of a reference in variant v of the document, in
\* internal units and degrees; the angles are multiples of 90 degrees
AsFound(ref, v) ==
    LET n == ref[2]
    IN  IF ref[1] = "J"
        THEN [x |-> FromMM(50 * n + 10 * v), y |-> FromMM(20 * n - 10 * v),
              deg |-> 90 * ((n + v) % 4) - 90]
        ELSE [x |-> FromMM(5 * n + 7 * (n % 10) + 3 * v),
              y |-> FromMM(2 * n - 4 * (n % 10) * v),
              deg |-> 90 * ((n + 2 * v) % 4) - 90]

\* variant v of the document, without the references of missing
Document(v, missing) ==
    [fp |-> [r \in (HeaderRefs \cup RelRefs \cup LedRefs) \ missing |-> AsFound(r, v)],
     shapes |-> << >>]

\* the panel counts of the placement runs: those whose panel angles are
\* multiples of a quarter turn, where the rotations are exact on the grid
PlacePanelCounts == {n \in 2..MaxPanels : 4 % n = 0}

\* a ring configuration of the placement runs; model = 0 stands for a
\* configuration without a model designation
RingConfig(n, om, off, centre, ul, start, model, lens) ==
    [panel |-> [number |-> n, width |-> 2, depth |-> 1,
                offset_angle |-> off, omitted |-> om],
     pins  |-> [number |-> 2, pitch |-> 1, depth |-> 1, omitted |-> {}],
     units |-> [length |-> ul, angle |-> "deg"],
     pcb   |-> [size_x |-> 20, size_y |-> 16,
                center_x |-> centre[1], center_y |-> centre[2],
                line_width |-> 1, cutout_diam |-> 4,
                panel |-> [ref_prefix |-> "J", ref_start |-> start],
                relative |-> [has_model |-> model # 0, model |-> model,
                              lists |-> [k \in RelKeys |-> RelList(k, lens[k])]]],
     absent |-> "none"]

\* cli ring -f arena.kicad_pcb: the placement runs
InitPlace ==
    /\ pc = "cli"
    /\ args = [prog |-> "cli", geom |-> "ring", file |-> "arena.kicad_pcb"]
    /\ \E n \in PlacePanelCounts :
         \E om \in SUBSET (0..(n - 1)),
            oc \in {<<0, <<0, 0>>, "mm">>, <<90, <<3, -2>>, "inch">>,
                    <<-90, <<0, 5>>, "mm">>},
            start \in {1, 2}, model \in {0, 1, 2, 9},
            lens \in [RelKeys -> 0..MaxRel] :
              cfg = RingConfig(n, om, oc[1], oc[2], oc[3], start, model, lens)
    /\ \E v \in 1..2, missing \in {{}, {Ref("J", 2)}, {Ref("C", 21)}} :
         board = Document(v, missing)
    /\ values = NoValues
    /\ err = "none"
    /\ run = NoRun
    /\ written = << >>
    /\ saved = << >>

\* cli with any geometry argument, with and without a pcb file
InitCli ==
    /\ pc = "cli"
    /\ \E g \in {"ring", "Ring", "RING", "grid", "Grid", "sphere"},
          f \in {"none", "arena.kicad_pcb"} :
         args = [prog |-> "cli", geom |-> g, file |-> f]
    /\ \E n \in {-1, 0, 4}, ab \in {"none", "panel.width", "units.length"} :
         cfg = [RingConfig(n, {}, 0, <<0, 0>>, "mm", 1, 1, [k \in RelKeys |-> 0])
                   EXCEPT !.absent = ab]
    /\ board = Document(1, {})
    /\ values = NoValues
    /\ err = "none"
    /\ run = NoRun
    /\ written = << >>
    /\ saved = << >>

\* a configuration of the LED array example
LedConfig(nrows, ncols, sx, sy, centre, start, angle, ul) ==
    [units |-> [length |-> ul, angle |-> "deg"],
     pcb   |-> [size_x |-> sx, size_y |-> sy,
                center_x |-> centre[1], center_y |-> centre[2],
                led |-> [nrows |-> nrows, ncols |-> ncols, ref_prefix |-> "D",
                         ref_start |-> start, angle |-> angle]],
     absent |-> "none"]

\* examples/led_array/example.py: LedArray(config).place_components(file).
\* The board sizes are multiples of 12 mm, which every row and column count
\* of the model divides into an even number of tenths.
InitLed ==
    /\ pc = "led"
    /\ args = [prog |-> "led_example", geom |-> "none", file |-> "leds.kicad_pcb"]
    /\ \E nrows \in 0..MaxGrid, ncols \in 0..MaxGrid, sx \in {12, 24}, sy \in {12},
          centre \in {<<0, 0>>, <<3, -2>>}, start \in {1, 2}, angle \in {0, 90},
          ul \in {"mm", "inch"} :
         cfg = LedConfig(nrows, ncols, sx, sy, centre, start, angle, ul)
    /\ \E v \in 1..2, missing \in {{}, {Ref("D", 3)}} :
         board = Document(v, missing)
    /\ values = NoValues
    /\ err = "none"
    /\ run = NoRun
    /\ written = << >>
    /\ saved = << >>

Init == InitPlace \/ InitCli \/ InitLed

Next ==
    \/ CliRing \/ CliUnsupported \/ CliNoFile
    \/ Construct
    \/ Place
    \/ Led

Spec == Init /\ [][Next]_vars

-----------------------------------------------------------------------------
(* Properties of the geometry engine (SpecGeom) *)

\* the i-th (1-based) member of S in ascending order
Nth(S, i) == CHOOSE k \in S : Cardinality({m \in S : m <= k}) = i

\* the installed panel indices of the configuration
Installed == {k \in 0..(cfg.panel.number - 1) : k \notin cfg.panel.omitted}

\* the angle make_values keeps for panel index k
PanelAngle(k) ==
    -(k * (Full \div cfg.panel.number) + to_rad(cfg, cfg.panel.offset_angle))

\* the centre of panel k on the circle of the given radius
PanelCentre(radius, k) ==
    << Round1000(radius * Cos1000(PanelAngle(k))),
       Round1000(radius * Sin1000(PanelAngle(k))) >>

\* the face of panel k on the circle of the given radius
PanelFace(radius, k) ==
    FaceLine(PanelCentre(radius, k)[1], PanelCentre(radius, k)[2],
             PanelAngle(k) + HalfPi, values.panel.width)

\* C1: for a panel count N >= 1 and omitted indices O within [0, N), every
\* per-panel sequence of make_values has length N - |O|, and entry i of every
\* sequence is the one of the i-th installed panel index in ascending order.
C1_SameLengthSamePanel ==
    (pc = "constructed" /\ cfg.panel.number >= 1) =>
        LET M == cfg.panel.number - Cardinality(cfg.panel.omitted)
        IN  /\ \A name \in {"angles", "front_x", "front_y", "back_x", "back_y",
                            "lines_front", "lines_back", "lines_left",
                            "lines_right", "pin_centers", "pin_positions"} :
                  Len(values[name]) = M
            /\ values.num_installed = M
            /\ \A i \in 1..M :
                  LET k  == Nth(Installed, i)
                      ff == PanelFace(values.radius_front, k)
                      bf == PanelFace(values.radius_back, k)
                  IN  /\ values.angles[i] = PanelAngle(k)
                      /\ <<values.front_x[i], values.front_y[i]>>
                            = PanelCentre(values.radius_front, k)
                      /\ <<values.back_x[i], values.back_y[i]>>
                            = PanelCentre(values.radius_back, k)
                      /\ values.lines_front[i] = ff
                      /\ values.lines_back[i] = bf
                      /\ values.lines_left[i]
                            = << <<ff[1][1], bf[1][1]>>, <<ff[2][1], bf[2][1]>> >>
                      /\ values.lines_right[i]
                            = << <<ff[1][2], bf[1][2]>>, <<ff[2][2], bf[2][2]>> >>
                      /\ values.pin_centers[i] = PanelCentre(values.radius_pins, k)
                      /\ values.pin_positions[i]
                            = HeaderPins(0, values.pins.number, values.pins.pitch,
                                         values.pins.omitted,
                                         PanelCentre(values.radius_pins, k)[1],
                                         PanelCentre(values.radius_pins, k)[2],
                                         PanelAngle(k))

\* C1 witness: four panels, panels 0 and 2 omitted, two entries in every sequence
C1_Witness ==
    /\ pc = "constructed"
    /\ cfg.panel.number = 4
    /\ cfg.panel.omitted = {0, 2}
    /\ Len(values.angles) = 2
    /\ Len(values.pin_positions) = 2

\* the pins get_pin_pos keeps for a header: the 0-based i whose i+1 is not omitted
KeptPins == {i \in 0..(cfg.pins.number - 1) : (i + 1) \notin cfg.pins.omitted}

\* C2: every header gets exactly one pin coordinate per kept pin, in ascending
\* pin index, at offset i*pitch - 0.5*(number-1)*pitch from the pin centre along
\* angle + pi/2; omitted members outside 1..number change nothing.
C2_PinsOfHeader ==
    pc = "constructed" =>
        \A h \in 1..Len(values.pin_positions) :
            LET xs  == values.pin_positions[h][1]
                ys  == values.pin_positions[h][2]
                c   == values.pin_centers[h]
                ang == values.angles[h]
                p   == values.pins.pitch
                n   == cfg.pins.number
            IN  /\ Len(xs) = Cardinality(KeptPins)
                /\ Len(ys) = Cardinality(KeptPins)
                /\ \A j \in 1..Cardinality(KeptPins) :
                      LET i == Nth(KeptPins, j)
                      IN  /\ xs[j] = c[1] + Round2000((2 * i * p - (n - 1) * p)
                                                        * Cos1000(ang + HalfPi))
                          /\ ys[j] = c[2] + Round2000((2 * i * p - (n - 1) * p)
                                                        * Sin1000(ang + HalfPi))
                /\ values.pin_positions[h]
                      = HeaderPins(0, n, p, cfg.pins.omitted \cap (1..n),
                                   c[1], c[2], ang)

\* C2 witness: number = 4 and omitted = {2} give a header three pins
C2_Witness ==
    /\ pc = "constructed"
    /\ cfg.pins.number = 4
    /\ cfg.pins.omitted = {2}
    /\ Len(values.pin_positions) >= 1
    /\ Len(values.pin_positions[1][1]) = 3

\* C7 (as claimed): a configuration with a non-positive panel.number or a
\* missing required field never gets a geometry.
C7_NoGeometryForBadConfig ==
    (cfg.panel.number <= 0 \/ cfg.absent \in GeomFields) =>
        (pc # "constructed" /\ values = NoValues)

\* C9 (as claimed): the angle kept for installed panel index k is
\* k * subtended_angle + offset_angle.
C9_AnglesAsClaimed ==
    (pc = "constructed" /\ cfg.panel.number >= 1) =>
        \A i \in 1..Len(values.angles) :
            values.angles[i]
                = Nth(Installed, i) * (Full \div cfg.panel.number)
                  + to_rad(cfg, cfg.panel.offset_angle)

\* C9 (amended): the angle kept for installed panel index k is the negation
\* -(k * subtended_angle + offset_angle) with subtended_angle = 2*pi/N, listed
\* in ascending k; with no omissions there are N angles and consecutive angles
\* differ by -2*pi/N.
C9_AnglesNegated ==
    (pc = "constructed" /\ cfg.panel.number >= 1) =>
        /\ values.panel.subtended * cfg.panel.number = Full
        /\ Len(values.angles) = Cardinality(Installed)
        /\ \A i \in 1..Len(values.angles) :
              values.angles[i]
                  = -(Nth(Installed, i) * values.panel.subtended
                      + to_rad(cfg, cfg.panel.offset_angle))
        /\ cfg.panel.omitted = {} =>
              /\ Len(values.angles) = cfg.panel.number
              /\ \A i \in 1..(Len(values.angles) - 1) :
                    values.angles[i + 1] - values.angles[i]
                        = -(Full \div cfg.panel.number)

\* C9 witness: three panels, none omitted, a non-zero offset
C9_Witness ==
    /\ pc = "constructed"
    /\ cfg.panel.number = 3
    /\ cfg.panel.omitted = {}
    /\ to_rad(cfg, cfg.panel.offset_angle) # 0
    /\ Len(values.angles) = 3

-----------------------------------------------------------------------------
(* Properties of the placement runs (Spec) *)

\* the state right after get_new_comp_data has returned in a cli run
Computed == args.prog = "cli" /\ pc = "computed" /\ written = << >>

\* the component data as found in the pcb document
Found0(ref) == get_comp_data_by_ref(board, ref)

\* the place of a component in the frame of a header: its offset from the
\* header rotated back by the header's angle, and its angle minus the header's.
\* The y axis of the pcb points down, so the rotation matrix of angle a is
\* what turns back a footprint orientation of a.
InFrame(comp, header) ==
    [p |-> Rot(header.angle, << comp.x - header.x, comp.y - header.y >>),
     angle |-> comp.angle - header.angle]

\* C3: after get_new_comp_data, the j-th relative component of every panel
\* sits in the new frame of the panel's header where the model's j-th
\* relative component was found in the as-found frame of the model header.
C3_RigidCopyOfModel ==
    Computed =>
        LET rel  == run.panel_ref_to_rel.val
            new  == run.new_comp_data.val
            mref == ModelRef(run.pcb_params)
        IN  \A p \in DOMAIN rel :
                \A j \in 1..Len(rel[p]) :
                    /\ rel[p][j] \in DOMAIN new
                    /\ InFrame(new[rel[p][j]], new[p])
                          = InFrame(Found0(rel[mref][j]), Found0(mref))

\* C3 witness: a panel other than the model with two relative components, the
\* model header found rotated, the panel's header to be rotated
C3_Witness ==
    /\ Computed
    /\ \E p \in DOMAIN run.panel_ref_to_rel.val :
          /\ p # ModelRef(run.pcb_params)
          /\ Len(run.panel_ref_to_rel.val[p]) = 2
          /\ run.new_comp_data.val[p].angle % Full # 0
    /\ Found0(ModelRef(run.pcb_params)).angle % Full \notin {0, 12}

\* the target of the header of panel i (1-based among the installed panels):
\* the pin centre of the geometry engine translated by the pcb centre, and
\* minus (the panel angle plus pi/2)
GeometryTarget(i) ==
    [x |-> values.pin_centers[i][1] + to_mm(cfg, cfg.pcb.center_x),
     y |-> values.pin_centers[i][2] + to_mm(cfg, cfg.pcb.center_y),
     angle |-> -(values.angles[i] + HalfPi)]

\* C4: every panel header, the model's included, gets the target of the
\* geometry engine whatever its as-found place; the model's own relative
\* components are placed around the model header's target by the rule of
\* every panel.
C4_HeadersAtGeometryTarget ==
    Computed =>
        LET rel  == run.panel_ref_to_rel.val
            new  == run.new_comp_data.val
            mref == ModelRef(run.pcb_params)
        IN  /\ \A i \in 1..Len(run.panel_ref_list) :
                  new[run.panel_ref_list[i]] = GeometryTarget(i)
            /\ \A i \in 1..Len(run.panel_ref_list) :
                  run.panel_ref_list[i] = mref =>
                      \A j \in 1..Len(rel[mref]) :
                          LET local == InFrame(Found0(rel[mref][j]), Found0(mref))
                              t     == GeometryTarget(i)
                              q     == Rot(-t.angle, local.p)
                          IN  new[rel[mref][j]]
                                = [x |-> t.x + q[1], y |-> t.y + q[2],
                                   angle |-> t.angle + local.angle]

\* C4 witness: the model header is found away from its target and has
\* relative components
C4_Witness ==
    /\ Computed
    /\ Len(run.panel_ref_to_rel.val[ModelRef(run.pcb_params)]) >= 1
    /\ to_mm(cfg, cfg.pcb.center_x) # 0
    /\ \E i \in 1..Len(run.panel_ref_list) :
          /\ run.panel_ref_list[i] = ModelRef(run.pcb_params)
          /\ Found0(run.panel_ref_list[i]) # GeometryTarget(i)

\* C5 (as claimed): with an empty list of relative components for the model
\* panel, get_new_comp_data completes with exactly one entry per header, at
\* the geometry target, whatever the lists of the other panels.
C5_EmptyModelListCompletes ==
    ( /\ args.prog = "cli"
      /\ pc = "computed" \/ (pc = "failed" /\ err = "IndexError")
      /\ run.panel_ref_to_rel.val[ModelRef(run.pcb_params)] = << >> )
    => /\ pc = "computed"
       /\ run.new_comp_data.keys = run.panel_ref_list
       /\ \A i \in 1..Len(run.panel_ref_list) :
             run.new_comp_data.val[run.panel_ref_list[i]] = GeometryTarget(i)

\* the references a placement run of the ring looks up, from the configuration
RingRefsNeeded ==
    LET nums == {cfg.pcb.panel.ref_start + i - 1 :
                    i \in 1..Cardinality(Installed)}
    IN  {Ref(cfg.pcb.panel.ref_prefix, n) : n \in nums}
          \cup UNION {SeqSet(cfg.pcb.relative.lists[n]) :
                        n \in nums \cap DOMAIN cfg.pcb.relative.lists}

\* the references a placement run of the LED array looks up
LedRefsNeeded ==
    {Ref(cfg.pcb.led.ref_prefix, cfg.pcb.led.ref_start + k - 1) :
        k \in 1..(cfg.pcb.led.nrows * cfg.pcb.led.ncols)}

\* a reference the run needs is not in the document, or the ring has no
\* model designation
LookupFails ==
    \/ /\ args.prog = "cli"
       /\ args.file # "none"
       /\ Lower(args.geom) = "ring"
       /\ \/ ~cfg.pcb.relative.has_model
          \/ \E r \in RingRefsNeeded : r \notin DOMAIN board.fp
    \/ /\ args.prog = "led_example"
       /\ \E r \in LedRefsNeeded : r \notin DOMAIN board.fp

\* C6: a placement run with a reference that is not in the document, or
\* without a model designation, never reaches the save step and never ends
\* normally; no run that raised has saved; and in the ring every reference
\* written was looked up by get_cur_comp_data before the first write.
C6_NoSaveAfterFailedLookup ==
    /\ LookupFails => (saved = << >> /\ pc # "done")
    /\ err # "none" => (saved = << >> /\ pc = "failed")
    /\ (args.prog = "cli" /\ pc = "computed") =>
          /\ SeqSet(run.new_comp_data.keys) \subseteq DOMAIN run.cur_comp_data
          /\ \A k \in 1..Len(written) : written[k].ref \in DOMAIN run.cur_comp_data

\* C6 witness: an LED run that moved footprints in memory and then raised on a
\* reference that is not in the document, with nothing saved
C6_Witness ==
    /\ args.prog = "led_example"
    /\ pc = "failed"
    /\ err = "AttributeError"
    /\ Len(written) >= 1
    /\ saved = << >>

\* C8 (as claimed): cli with a geometry other than ring returns normally,
\* constructs no layout and places nothing.
C8_UnsupportedReturnsNormally ==
    (args.prog = "cli" /\ Lower(args.geom) # "ring") =>
        /\ err = "none"
        /\ pc # "failed"
        /\ values = NoValues
        /\ written = << >>
        /\ saved = << >>

\* the sum of the x (and y) distances of the first k positions written from
\* the point c
RECURSIVE SumDX(_, _, _)
SumDX(w, k, c) == IF k = 0 THEN 0 ELSE (w[k].x - c) + SumDX(w, k - 1, c)

RECURSIVE SumDY(_, _, _)
SumDY(w, k, c) == IF k = 0 THEN 0 ELSE (w[k].y - c) + SumDY(w, k - 1, c)

\* C10: a finished LED run has set nrows*ncols references, numbered from
\* ref_start upwards in the order written, each once; the positions are a grid
\* with one x step between columns and one y step between rows, centred on the
\* board centre, no two alike, and every orientation is the same.
C10_LedGrid ==
    (args.prog = "led_example" /\ pc = "done") =>
        LET nrows == cfg.pcb.led.nrows
            ncols == cfg.pcb.led.ncols
            n     == nrows * ncols
            col(k) == (k - 1) \div nrows
            row(k) == (k - 1) % nrows
        IN  /\ Len(written) = n
            /\ \A k \in 1..n :
                  written[k].ref = Ref(cfg.pcb.led.ref_prefix,
                                       cfg.pcb.led.ref_start + k - 1)
            /\ \A k, m \in 1..n :
                  /\ (col(m) = col(k) + 1 /\ row(m) = row(k))
                        => /\ written[m].x - written[k].x
                                = written[nrows + 1].x - written[1].x
                           /\ written[m].y = written[k].y
                  /\ (row(m) = row(k) + 1 /\ col(m) = col(k))
                        => /\ written[m].y - written[k].y
                                = written[2].y - written[1].y
                           /\ written[m].x = written[k].x
                  /\ k # m => <<written[k].x, written[k].y>>
                                # <<written[m].x, written[m].y>>
                  /\ written[k].deg = written[m].deg
            /\ SumDX(written, n, FromMM(to_mm(cfg, cfg.pcb.center_x))) = 0
            /\ SumDY(written, n, FromMM(to_mm(cfg, cfg.pcb.center_y))) = 0

\* C10 witness: a finished run over 2 rows and 3 columns, numbered from 2
C10_Witness ==
    /\ args.prog = "led_example"
    /\ pc = "done"
    /\ cfg.pcb.led.nrows = 2
    /\ cfg.pcb.led.ncols = 3
    /\ cfg.pcb.led.ref_start = 2
    /\ Len(written) = 6
    /\ saved # << >>

-----------------------------------------------------------------------------
(* The frame of place_components *)

\* a step of place_components on a constructed RingLayout
PlaceStepEnabled ==
    /\ args.prog = "cli"
    /\ pc \in {"constructed", "loaded", "read", "computed"}

\* C11: once the RingLayout is constructed, no step of place_components
\* (get_pcb_params and get_new_comp_data included) changes the loaded
\* configuration or the computed geometry: the unit normalisation writes to
\* a copy of config['pcb'], and the relative-placement transform writes to
\* the component data read from the document.
C11_ConfigAndValuesKept ==
    [][PlaceStepEnabled => (cfg' = cfg /\ values' = values)]_vars

\* a placement in inches after get_pcb_params and get_new_comp_data, in
\* which the normalised pcb parameters differ from the configured ones and
\* the transform has overwritten component data read from the document,
\* with the configuration and the geometry still those of the construction
C11_Witness ==
    /\ Computed
    /\ cfg.units.length = "inch"
    /\ run.pcb_params.size_x # cfg.pcb.size_x
    /\ run.pcb_params.center_x # cfg.pcb.center_x
    /\ \E r \in DOMAIN run.cur_comp_data :
          run.cur_comp_data[r] # get_comp_data_by_ref(board, r)
    /\ values = make_values(cfg)

-----------------------------------------------------------------------------
(* Every panel omitted *)

\* a placement run of cli on a configuration that names a model panel and
\* omits every panel index in [0, panel.number), panel.number >= 1
AllOmittedRun ==
    /\ args.prog = "cli"
    /\ args.file # "none"
    /\ Lower(args.geom) = "ring"
    /\ cfg.absent = "none"
    /\ cfg.panel.number >= 1
    /\ cfg.panel.omitted = 0..(cfg.panel.number - 1)
    /\ cfg.pcb.relative.has_model

\* every per-panel output sequence of make_values is empty
PerPanelEmpty(v) ==
    /\ v.num_installed = 0
    /\ v.angles = << >>
    /\ v.front_x = << >> /\ v.front_y = << >>
    /\ v.back_x = << >> /\ v.back_y = << >>
    /\ v.lines_front = << >> /\ v.lines_back = << >>
    /\ v.lines_left = << >> /\ v.lines_right = << >>
    /\ v.pin_positions = << >> /\ v.pin_centers = << >>

\* C12 (as claimed): with every panel omitted make_values completes with
\* empty per-panel sequences, and the place_components run that follows
\* moves no component and does not fail.
C12_AllOmittedPlacesNothing ==
    AllOmittedRun =>
        /\ pc # "failed"
        /\ err = "none"
        /\ written = << >>
        /\ (pc \notin {"cli", "construct"}) => PerPanelEmpty(values)

\* the part of C12 that the code keeps: make_values completes and every
\* per-panel sequence is empty, and no component is moved
C12_GeometryEmptyNothingMoved ==
    (AllOmittedRun /\ pc \notin {"cli", "construct"}) =>
        /\ PerPanelEmpty(values)
        /\ written = << >>

\* the run of C12 fails in get_new_comp_data: cur_comp_data is empty and
\* cur_comp_data[model_ref] raises KeyError, before anything is saved
C12_FailsAtModelLookup ==
    /\ AllOmittedRun
    /\ pc = "failed"
    /\ err = "KeyError"
    /\ PerPanelEmpty(values)
    /\ run # NoRun
    /\ run.panel_ref_list = << >>
    /\ DOMAIN run.cur_comp_data = {}
    /\ saved = << >>

-----------------------------------------------------------------------------
(* The header references of place_components *)

\* the reference claimed for the i-th header (1-based)
HeaderOfPanel(i) ==
    Ref(cfg.pcb.panel.ref_prefix, cfg.pcb.panel.ref_start + i - 1)

\* the header target of panel index k of the ring: its pin centre translated
\* by the pcb centre, and minus (the panel angle plus pi/2)
PanelTarget(k) ==
    [x |-> PinCenter(values.radius_pins, PanelAngle(k))[1]
              + to_mm(cfg, cfg.pcb.center_x),
     y |-> PinCenter(values.radius_pins, PanelAngle(k))[2]
              + to_mm(cfg, cfg.pcb.center_y),
     angle |-> -(PanelAngle(k) + HalfPi)]

\* C13: the header references of place_components are ref_prefix{ref_start}
\* .. ref_prefix{ref_start + num_installed - 1}, pairwise distinct and
\* contiguous whatever panel indices are omitted; the list of relative
\* components of the i-th header is the one configured under that header's
\* reference number, empty when there is none; and the i-th header is
\* placed at the geometry of the i-th installed panel index in ascending
\* order.
C13_ContiguousRefsByHeaderNumber ==
    (args.prog = "cli" /\ pc \in {"loaded", "read", "computed"}) =>
        LET M     == Cardinality(Installed)
            refs  == run.panel_ref_list
            rel   == run.panel_ref_to_rel.val
            lists == cfg.pcb.relative.lists
            start == cfg.pcb.panel.ref_start
        IN  /\ Len(refs) = M
            /\ \A i \in 1..M : refs[i] = HeaderOfPanel(i)
            /\ \A i, j \in 1..M : i # j => refs[i] # refs[j]
            /\ DOMAIN rel = {HeaderOfPanel(i) : i \in 1..M}
            /\ \A i \in 1..M :
                  rel[refs[i]] = IF (start + i - 1) \in DOMAIN lists
                                 THEN lists[start + i - 1]
                                 ELSE << >>
            /\ pc = "computed" =>
                  \A i \in 1..M :
                      run.new_comp_data.val[refs[i]] = PanelTarget(Nth(Installed, i))

\* a ring of four with panels 0 and 2 omitted and ref_start 2: the headers
\* are J2 and J3 for the panel indices 1 and 3, J2 has the list configured
\* under 2 (which is not the list under its panel index 1), J3 has no entry
\* and so an empty list, and both are placed
C13_Witness ==
    /\ Computed
    /\ cfg.panel.number = 4
    /\ Installed = {1, 3}
    /\ cfg.pcb.panel.ref_start = 2
    /\ run.panel_ref_list = << Ref("J", 2), Ref("J", 3) >>
    /\ run.panel_ref_to_rel.val[Ref("J", 2)] = cfg.pcb.relative.lists[2]
    /\ Len(cfg.pcb.relative.lists[2]) = 2
    /\ cfg.pcb.relative.lists[1] # cfg.pcb.relative.lists[2]
    /\ 3 \notin DOMAIN cfg.pcb.relative.lists
    /\ run.panel_ref_to_rel.val[Ref("J", 3)] = << >>
    /\ run.new_comp_data.val[Ref("J", 3)] = PanelTarget(3)
    /\ PanelTarget(3) # PanelTarget(1)

=============================================================================
